---------------------------- MODULE Spec2Model ----------------------------
(***************************************************************************)
(* Model of tools/session.py: PersistentSSMSession, the emulation of a     *)
(* persistent shell session (working directory, environment variables,     *)
(* command history) on top of a stateless remote command service.          *)
(*                                                                         *)
(* Strings are TLA+ strings; the Python string methods the code uses       *)
(* (strip, split, startswith, in, join) are defined below as they compute. *)
(* The remote service (send_command / get_command_invocation) is the       *)
(* environment: each call of it either fails or answers, and its answers   *)
(* are drawn from small sets.                                              *)
(***************************************************************************)
EXTENDS Integers, Sequences, FiniteSets, TLC

VARIABLES
    current_directory,  \* self.current_directory
    environment_vars,   \* self.environment_vars: sequence of <<name, value>>, insertion order
    command_history,    \* self.command_history
    pc,                 \* "idle" | "running" | "raised" | "polling"
    commands,           \* execute_command: the list of atomic commands of the call
    results,            \* execute_command: the results list
    returned,           \* value returned by the last completed execute_command
    sent,               \* command strings passed to send_command during the call
    invocation,         \* the remote invocation made for the last atomic command
    poll                \* _wait_for_command: loop state / state at return

vars == <<current_directory, environment_vars, command_history, pc, commands,
          results, returned, sent, invocation, poll>>

session == <<current_directory, environment_vars, command_history>>

-----------------------------------------------------------------------------
(* Bounds of the model *)

MaxHistory == 2       \* execute_command is not called once the history has this many entries
MaxLongHistory == 11  \* the same, in the specification that drives long histories

-----------------------------------------------------------------------------
(* Python string operations used by the code *)

Min(a, b) == IF a <= b THEN a ELSE b

Whitespace == {" ", "\n", "\t"}

RECURSIVE lstrip(_)
lstrip(s) ==
    IF Len(s) > 0 /\ SubSeq(s, 1, 1) \in Whitespace
    THEN lstrip(SubSeq(s, 2, Len(s)))
    ELSE s

RECURSIVE rstrip(_)
rstrip(s) ==
    IF Len(s) > 0 /\ SubSeq(s, Len(s), Len(s)) \in Whitespace
    THEN rstrip(SubSeq(s, 1, Len(s) - 1))
    ELSE s

strip(s) == rstrip(lstrip(s))

startswith(s, prefix) ==
    Len(prefix) <= Len(s) /\ SubSeq(s, 1, Len(prefix)) = prefix

\* index of the first occurrence of sub in s, 0 if there is none
find(s, sub) ==
    LET hits == {i \in 1..(Len(s) - Len(sub) + 1) : SubSeq(s, i, i + Len(sub) - 1) = sub}
    IN  IF hits = {} THEN 0 ELSE CHOOSE i \in hits : \A j \in hits : i <= j

contains(s, sub) == find(s, sub) # 0

\* s.split(sep)
RECURSIVE split(_, _)
split(s, sep) ==
    LET i == find(s, sep)
    IN  IF i = 0 THEN <<s>>
        ELSE <<SubSeq(s, 1, i - 1)>> \o split(SubSeq(s, i + Len(sep), Len(s)), sep)

\* s.split(sep, 1)
split_once(s, sep) ==
    LET i == find(s, sep)
    IN  IF i = 0 THEN <<s>>
        ELSE <<SubSeq(s, 1, i - 1), SubSeq(s, i + Len(sep), Len(s))>>

\* sep.join(list)
RECURSIVE join(_, _)
join(sep, list) ==
    IF list = <<>> THEN ""
    ELSE IF Len(list) = 1 THEN list[1]
    ELSE list[1] \o sep \o join(sep, Tail(list))

\* [x for x in list if pred]: the segments that are non-empty after trimming, trimmed
RECURSIVE stripped_nonempty(_)
stripped_nonempty(list) ==
    IF list = <<>> THEN <<>>
    ELSE IF strip(Head(list)) # ""
         THEN <<strip(Head(list))>> \o stripped_nonempty(Tail(list))
         ELSE stripped_nonempty(Tail(list))

-----------------------------------------------------------------------------
(* Python dict, as the sequence of its items in insertion order *)

dict_keys(d) == {d[i][1] : i \in 1..Len(d)}

dict_get(d, k) == d[CHOOSE i \in 1..Len(d) : d[i][1] = k][2]

\* d[k] = v
dict_set(d, k, v) ==
    IF k \in dict_keys(d)
    THEN [i \in 1..Len(d) |-> IF d[i][1] = k THEN <<k, v>> ELSE d[i]]
    ELSE Append(d, <<k, v>>)


-----------------------------------------------------------------------------
(* The remote executor: what send_command and get_command_invocation answer *)

TransportError == "transport error"   \* the text of the exception a failed call raises

TerminalStatuses == {"Success", "Failed", "Cancelled", "TimedOut"}

\* one status query answers a status, or fails ("Error")
Responses == TerminalStatuses \cup {"Pending", "Error"}

\* the standard output get_command_invocation reports
Outputs == {"", "/t\n", "Directory not found\n"}

\* the answers to the successive status queries of one invocation; the last
\* answer repeats for the queries after it
PollScripts ==
    { <<"Success">>, <<"Failed">>, <<"Pending">>,
      <<"Error", "Cancelled">>, <<"Pending", "TimedOut">> }

Response(script, n) == IF n <= Len(script) THEN script[n] ELSE script[Len(script)]

\* what the remote executor does for one atomic command
SubmitFailure == [submitOK |-> FALSE, script |-> <<"Error">>, fetchOK |-> FALSE, stdout |-> ""]

RemoteOutcomes ==
    {SubmitFailure}
    \cup {[submitOK |-> TRUE, script |-> sc, fetchOK |-> FALSE, stdout |-> ""] : sc \in PollScripts}
    \cup {[submitOK |-> TRUE, script |-> sc, fetchOK |-> TRUE, stdout |-> out] :
            sc \in PollScripts, out \in Outputs}

-----------------------------------------------------------------------------
(* _wait_for_command *)

max_retries == 10
sleep_time == 3
sleep_cap == 15

RECURSIVE pow2(_)
pow2(n) == IF n = 0 THEN 1 ELSE 2 * pow2(n - 1)

\* the backoff without its cap
sleep_duration_uncapped(attempt) == sleep_time * pow2(attempt)

\* min(sleep_time * (2**attempt), 15)
sleep_duration(attempt) == Min(sleep_time * pow2(attempt), sleep_cap)

\* only Success ends the polling
is_terminal_success_only(status) == status = "Success"

is_terminal(status) == status \in TerminalStatuses

\* answers: what the successive status queries answered; delays: the sleeps made
PollStart ==
    [attempt |-> 0, answers |-> <<>>, delays |-> <<>>, status |-> "Unknown",
     done |-> FALSE, result |-> FALSE]

\* a failed query that backs off like a pending one
PollStep_error_backoff(p, r) ==
    IF is_terminal(r)
    THEN [p EXCEPT !.answers = Append(@, r), !.status = r,
                   !.done = TRUE, !.result = TRUE]
    ELSE [p EXCEPT !.answers = Append(@, r),
                   !.status = IF r = "Error" THEN @ ELSE r,
                   !.delays = Append(@, sleep_duration(p.attempt)),
                   !.attempt = @ + 1]

\* a failed query that is retried without consuming an attempt
PollStep_error_uncounted(p, r) ==
    IF r = "Error"
    THEN [p EXCEPT !.answers = Append(@, r),
                   !.delays = Append(@, sleep_time)]
    ELSE IF is_terminal(r)
    THEN [p EXCEPT !.answers = Append(@, r), !.status = r,
                   !.done = TRUE, !.result = TRUE]
    ELSE [p EXCEPT !.answers = Append(@, r), !.status = r,
                   !.delays = Append(@, sleep_duration(p.attempt)),
                   !.attempt = @ + 1]

\* one iteration of the for loop, the status query answering r
PollStep(p, r) ==
    IF r = "Error"
    THEN [p EXCEPT !.answers = Append(@, r),
                   !.delays = Append(@, sleep_time),
                   !.attempt = @ + 1]
    ELSE IF is_terminal(r)
    THEN [p EXCEPT !.answers = Append(@, r), !.status = r,
                   !.done = TRUE, !.result = TRUE]
    ELSE [p EXCEPT !.answers = Append(@, r), !.status = r,
                   !.delays = Append(@, sleep_duration(p.attempt)),
                   !.attempt = @ + 1]

\* the loop ran out of attempts
PollExhausted(p) == [p EXCEPT !.done = TRUE, !.result = FALSE]

RECURSIVE RunPoll(_, _)
RunPoll(p, script) ==
    IF p.done THEN p
    ELSE IF p.attempt >= max_retries THEN PollExhausted(p)
    ELSE RunPoll(PollStep(p, Response(script, Len(p.answers) + 1)), script)

_wait_for_command(script) == RunPoll(PollStart, script)

-----------------------------------------------------------------------------
(* __init__ and initialize_directory *)

DEFAULT_DIRECTORY == "/home/ec2-user"

\* what the remote executor answers to the `echo $HOME` probe of the constructor
ProbeOutputs == {"", " \n", "/h\n"}

ProbeOutcomes ==
    {SubmitFailure}
    \cup {[submitOK |-> TRUE, script |-> <<"Success">>, fetchOK |-> FALSE, stdout |-> ""]}
    \cup {[submitOK |-> TRUE, script |-> <<"Success">>, fetchOK |-> TRUE, stdout |-> out] :
            out \in ProbeOutputs}

NoInvocation ==
    [kind |-> "none", command |-> "", submitOK |-> FALSE, fetch |-> "none", stdout |-> ""]

\* the record of the invocation a handler made: fetch is "none" when the handler
\* made no fetch, "failed" when the fetch raised, "ok" when it answered stdout
Invocation(kind, command, r, fetches) ==
    [kind |-> kind, command |-> command, submitOK |-> r.submitOK,
     fetch |-> IF ~(r.submitOK /\ fetches) THEN "none"
               ELSE IF r.fetchOK THEN "ok" ELSE "failed",
     stdout |-> IF r.submitOK /\ fetches /\ r.fetchOK THEN r.stdout ELSE ""]

\* the probe's output taken without the test `if home_dir`
initialize_directory_unchecked(r) ==
    IF r.submitOK /\ r.fetchOK THEN strip(r.stdout) ELSE DEFAULT_DIRECTORY

\* current_directory after initialize_directory, the probe ending as r
initialize_directory(r) ==
    LET home_dir == strip(r.stdout)
    IN  IF r.submitOK /\ r.fetchOK /\ home_dir # ""
        THEN home_dir
        ELSE DEFAULT_DIRECTORY

\* the session as the constructor leaves it, the probe ending as r
Constructed(r) ==
    /\ current_directory = initialize_directory(r)
    /\ environment_vars = <<>>
    /\ command_history = <<>>
    /\ commands = <<>>
    /\ results = <<>>
    /\ returned = ""
    /\ sent = <<>>
    /\ invocation = Invocation("init", "echo $HOME", r, TRUE)
    /\ poll = PollStart

Init ==
    /\ pc = "ready"
    /\ \E r \in ProbeOutcomes : Constructed(r)

-----------------------------------------------------------------------------
(* execute_command: classification of one atomic command *)

\* the test for an assignment made before the test for cd
classify_assignment_first(cmd) ==
    IF contains(cmd, "=")
       /\ ~(startswith(cmd, "export ") \/ startswith(cmd, "echo ")
            \/ startswith(cmd, "printf "))
    THEN "VariableAssignment"
    ELSE IF startswith(cmd, "cd ") THEN "DirectoryChange"
    ELSE "GeneralExecution"

classify(cmd) ==
    IF startswith(cmd, "cd ") THEN "DirectoryChange"
    ELSE IF contains(cmd, "=")
            /\ ~(startswith(cmd, "export ") \/ startswith(cmd, "echo ")
                 \/ startswith(cmd, "printf "))
         THEN "VariableAssignment"
    ELSE "GeneralExecution"

\* a loop that walks the list from its end
next_command_reversed(cmds, res) == cmds[Len(cmds) - Len(res)]

\* the atomic command the for loop handles next: one result is appended per iteration
next_command(cmds, res) == cmds[Len(res) + 1]

in_loop == pc = "running" /\ Len(results) < Len(commands)

-----------------------------------------------------------------------------
(* _handle_cd_command *)

NOT_FOUND == "Directory not found"

cd_dir_path(command) == strip(SubSeq(strip(command), 4, Len(strip(command))))

check_cmd(command, cwd) ==
    LET dir_path == cd_dir_path(command)
    IN  IF dir_path = "" THEN "cd && pwd"
        ELSE IF startswith(dir_path, "/")
        THEN "if [ -d '" \o dir_path \o "' ]; then cd '" \o dir_path
             \o "' && pwd; else echo 'Directory not found'; fi"
        ELSE "if [ -d '" \o cwd \o "/" \o dir_path \o "' ] || [ -d '" \o dir_path
             \o "' ]; then cd '" \o cwd \o "' && cd '" \o dir_path
             \o "' && pwd; else echo 'Directory not found'; fi"

\* the comparison made against the untrimmed sentinel line
cd_succeeded_untrimmed(result) == result # NOT_FOUND \o "\n"

\* result != "Directory not found"
cd_succeeded(result) == result # NOT_FOUND

_handle_cd_command(r) ==
    /\ in_loop
    /\ classify(next_command(commands, results)) = "DirectoryChange"
    /\ LET command == next_command(commands, results)
           result == strip(r.stdout)
       IN  /\ sent' = Append(sent, check_cmd(command, current_directory))
           /\ invocation' = Invocation("DirectoryChange", command, r, TRUE)
           /\ poll' = IF r.submitOK THEN _wait_for_command(r.script) ELSE PollStart
           /\ IF ~r.submitOK \/ ~r.fetchOK
              THEN \* no try around send_command and get_command_invocation
                   /\ pc' = "raised"
                   /\ UNCHANGED <<session, results>>
              ELSE IF cd_succeeded(result)
              THEN /\ current_directory' = result
                   /\ command_history' = Append(command_history, command)
                   /\ results' = Append(results, "Changed to directory: " \o result)
                   /\ UNCHANGED <<environment_vars, pc>>
              ELSE /\ results' = Append(results, NOT_FOUND)
                   /\ UNCHANGED <<session, pc>>
           /\ UNCHANGED <<commands, returned>>

-----------------------------------------------------------------------------
(* _handle_env_var_setting *)

env_full_command(cwd, var_name, var_value) ==
    "cd '" \o cwd \o "' && " \o var_name \o "=" \o var_value
    \o " && echo 'Set " \o var_name \o "=" \o var_value \o "'"

\* the assignment made only once send_command has returned
vars_after_assignment_rollback(env, var_name, var_value, submitOK) ==
    IF submitOK THEN dict_set(env, var_name, var_value) ELSE env

\* environment_vars when the handler returns: the assignment of line 133 is made
\* before send_command is called and no except path undoes it
vars_after_assignment(env, var_name, var_value, submitOK) ==
    dict_set(env, var_name, var_value)

\* an assignment recorded, and confirmed, only when its invocation ended in Success
_handle_env_var_setting_checking_status(r) ==
    /\ in_loop
    /\ classify(next_command(commands, results)) = "VariableAssignment"
    /\ LET command == next_command(commands, results)
           parts == split_once(strip(command), "=")
           var_name == parts[1]
           var_value == parts[2]
           waited == IF r.submitOK THEN _wait_for_command(r.script) ELSE PollStart
       IN  /\ environment_vars' = dict_set(environment_vars, var_name, var_value)
           /\ sent' = Append(sent, env_full_command(current_directory, var_name, var_value))
           /\ invocation' = Invocation("VariableAssignment", command, r, FALSE)
           /\ poll' = waited
           /\ IF r.submitOK /\ waited.status = "Success"
              THEN /\ command_history' = Append(command_history, command)
                   /\ results' = Append(results, "Set environment variable "
                                                 \o var_name \o "=" \o var_value)
              ELSE /\ results' = Append(results, "Error setting environment variable: "
                                                 \o TransportError)
                   /\ UNCHANGED command_history
           /\ UNCHANGED <<current_directory, pc, commands, returned>>

_handle_env_var_setting(r) ==
    /\ in_loop
    /\ classify(next_command(commands, results)) = "VariableAssignment"
    /\ LET command == next_command(commands, results)
           parts == split_once(strip(command), "=")
       IN  IF Len(parts) # 2
           THEN \* the unpacking raises ValueError, caught by the handler
                /\ results' = Append(results, "Error setting environment variable: "
                                              \o "not enough values to unpack (expected 2, got 1)")
                /\ invocation' = NoInvocation
                /\ UNCHANGED <<session, sent, poll, pc, commands, returned>>
           ELSE LET var_name == parts[1]
                    var_value == parts[2]
                IN  /\ environment_vars' = vars_after_assignment(environment_vars, var_name,
                                                               var_value, r.submitOK)
                    /\ sent' = Append(sent, env_full_command(current_directory, var_name, var_value))
                    /\ invocation' = Invocation("VariableAssignment", command, r, FALSE)
                    /\ poll' = IF r.submitOK THEN _wait_for_command(r.script) ELSE PollStart
                    /\ IF r.submitOK
                       THEN /\ command_history' = Append(command_history, command)
                            /\ results' = Append(results, "Set environment variable "
                                                          \o var_name \o "=" \o var_value)
                       ELSE /\ results' = Append(results, "Error setting environment variable: "
                                                          \o TransportError)
                            /\ UNCHANGED command_history
                    /\ UNCHANGED <<current_directory, pc, commands, returned>>

-----------------------------------------------------------------------------
(* _execute_normal_command *)

\* " ".join([f"{k}='{v}'" for k, v in self.environment_vars.items()])
env_vars_string(env) ==
    join(" ", [i \in 1..Len(env) |-> env[i][1] \o "='" \o env[i][2] \o "'"])

\* a prefix that renders only the first tracked variable
env_prefix_first_only(env) ==
    IF env = <<>> THEN "" ELSE env[1][1] \o "='" \o env[1][2] \o "' "

env_prefix(env) ==
    IF env_vars_string(env) # "" THEN env_vars_string(env) \o " " ELSE ""

full_command(cwd, env, command) ==
    "cd '" \o cwd \o "' && " \o env_prefix(env) \o command

\* a general command that follows the directory its output names when its text holds a cd
_execute_normal_command_tracking_cd(r) ==
    /\ in_loop
    /\ classify(next_command(commands, results)) = "GeneralExecution"
    /\ LET command == next_command(commands, results)
       IN  /\ sent' = Append(sent, full_command(current_directory, environment_vars, command))
           /\ invocation' = Invocation("GeneralExecution", command, r, TRUE)
           /\ poll' = IF r.submitOK THEN _wait_for_command(r.script) ELSE PollStart
           /\ IF r.submitOK /\ r.fetchOK
              THEN /\ command_history' = Append(command_history, command)
                   /\ results' = Append(results, r.stdout)
                   /\ current_directory' = IF contains(command, "cd ") /\ strip(r.stdout) # ""
                                           THEN strip(r.stdout) ELSE current_directory
              ELSE /\ results' = Append(results, "Error executing command: " \o TransportError)
                   /\ UNCHANGED <<command_history, current_directory>>
           /\ UNCHANGED <<environment_vars, pc, commands, returned>>

\* a general command recorded in the history before it is submitted
_execute_normal_command_recorded_first(r) ==
    /\ in_loop
    /\ classify(next_command(commands, results)) = "GeneralExecution"
    /\ LET command == next_command(commands, results)
       IN  /\ sent' = Append(sent, full_command(current_directory, environment_vars, command))
           /\ invocation' = Invocation("GeneralExecution", command, r, TRUE)
           /\ poll' = IF r.submitOK THEN _wait_for_command(r.script) ELSE PollStart
           /\ command_history' = Append(command_history, command)
           /\ IF r.submitOK /\ r.fetchOK
              THEN results' = Append(results, r.stdout)
              ELSE results' = Append(results, "Error executing command: " \o TransportError)
           /\ UNCHANGED <<current_directory, environment_vars, pc, commands, returned>>

_execute_normal_command(r) ==
    /\ in_loop
    /\ classify(next_command(commands, results)) = "GeneralExecution"
    /\ LET command == next_command(commands, results)
       IN  /\ sent' = Append(sent, full_command(current_directory, environment_vars, command))
           /\ invocation' = Invocation("GeneralExecution", command, r, TRUE)
           /\ poll' = IF r.submitOK THEN _wait_for_command(r.script) ELSE PollStart
           /\ IF r.submitOK /\ r.fetchOK
              THEN /\ command_history' = Append(command_history, command)
                   /\ results' = Append(results, r.stdout)
              ELSE /\ results' = Append(results, "Error executing command: " \o TransportError)
                   /\ UNCHANGED command_history
           /\ UNCHANGED <<current_directory, environment_vars, pc, commands, returned>>

-----------------------------------------------------------------------------
(* execute_command: entry (the split) and return (the join) *)

execute_command(command) ==
    /\ pc \in {"ready", "returned", "raised"}
    /\ commands' = stripped_nonempty(split(command, "&&"))
    /\ results' = <<>>
    /\ sent' = <<>>
    /\ invocation' = NoInvocation
    /\ poll' = PollStart
    /\ returned' = ""
    /\ pc' = "running"
    /\ UNCHANGED session

execute_return ==
    /\ pc = "running"
    /\ Len(results) = Len(commands)
    /\ returned' = join("\n", results)
    /\ pc' = "returned"
    /\ UNCHANGED <<session, commands, results, sent, invocation, poll>>

-----------------------------------------------------------------------------
(* get_state *)

\* the slice [:10], the oldest entries
history_view_oldest(h) == SubSeq(h, 1, Min(10, Len(h)))

\* self.command_history[-10:] if self.command_history else []
history_view(h) ==
    IF h = <<>> THEN <<>>
    ELSE SubSeq(h, IF Len(h) > 10 THEN Len(h) - 10 + 1 ELSE 1, Len(h))

get_state ==
    [current_directory |-> current_directory,
     environment_variables |-> environment_vars,
     command_history |-> history_view(command_history)]

-----------------------------------------------------------------------------
(* The session under arbitrary callers and remote answers *)

Inputs ==
    { "cd d && cd /t && pwd",
      "A=1 && pwd && pwd",
      "B=2",
      "cd",
      "pwd" }

Execute ==
    /\ Len(command_history) < MaxHistory
    /\ \E command \in Inputs : execute_command(command)

HandleCd == \E r \in RemoteOutcomes : _handle_cd_command(r)

HandleEnvVar == \E r \in RemoteOutcomes : _handle_env_var_setting(r)

ExecuteNormal == \E r \in RemoteOutcomes : _execute_normal_command(r)

Next ==
    \/ Execute
    \/ HandleCd
    \/ HandleEnvVar
    \/ ExecuteNormal
    \/ execute_return

Spec == Init /\ [][Next]_vars

-----------------------------------------------------------------------------
(* Long histories: few commands, so that the history outgrows the view of get_state *)

HistInputs == {"pwd", "cd /t"}

HistOutcomes ==
    {[submitOK |-> TRUE, script |-> <<"Success">>, fetchOK |-> TRUE, stdout |-> out] :
        out \in {"/t\n", "Directory not found\n"}}

ExecuteHist ==
    /\ Len(command_history) < MaxLongHistory
    /\ \E command \in HistInputs : execute_command(command)

HandleCdHist == \E r \in HistOutcomes : _handle_cd_command(r)

ExecuteNormalHist == \E r \in HistOutcomes : _execute_normal_command(r)

NextHist ==
    \/ ExecuteHist
    \/ HandleCdHist
    \/ ExecuteNormalHist
    \/ execute_return

SpecHist == Init /\ [][NextHist]_vars

-----------------------------------------------------------------------------
(* The session under inputs at the edges of the split and of the classification *)

EdgeInputs ==
    { "ls; cd /t",
      "cd a=b && export A=b",
      "A=",
      " && ",
      " pwd &&&& A=1 && " }

ExecuteEdge ==
    /\ Len(command_history) < MaxHistory
    /\ \E command \in EdgeInputs : execute_command(command)

NextEdge ==
    \/ ExecuteEdge
    \/ HandleCd
    \/ HandleEnvVar
    \/ ExecuteNormal
    \/ execute_return

SpecEdge == Init /\ [][NextEdge]_vars

-----------------------------------------------------------------------------
(* The poller alone, one status query per step, under every sequence of answers *)

\* a handler of a constructed session has submitted a command and calls the poller
InitPoll ==
    /\ pc = "polling"
    /\ \E r \in ProbeOutcomes : Constructed(r)

wait_query(r) ==
    /\ pc = "polling"
    /\ ~poll.done
    /\ poll.attempt < max_retries
    /\ poll' = PollStep(poll, r)
    /\ UNCHANGED <<session, pc, commands, results, returned, sent, invocation>>

wait_exhausted ==
    /\ pc = "polling"
    /\ ~poll.done
    /\ poll.attempt >= max_retries
    /\ poll' = PollExhausted(poll)
    /\ UNCHANGED <<session, pc, commands, results, returned, sent, invocation>>

WaitQuery == \E r \in Responses : wait_query(r)

NextPoll ==
    \/ WaitQuery
    \/ wait_exhausted

SpecPoll == InitPoll /\ [][NextPoll]_vars

-----------------------------------------------------------------------------
(* Properties *)

endswith(s, suffix) ==
    Len(suffix) <= Len(s) /\ SubSeq(s, Len(s) - Len(suffix) + 1, Len(s)) = suffix

Last(seq) == seq[Len(seq)]

CHANGED_TO == "Changed to directory: "

is_failure_result(x) ==
    \/ x = NOT_FOUND
    \/ startswith(x, "Error executing command: ")
    \/ startswith(x, "Error setting environment variable: ")

\* s is the remote command string of the atomic command cmd
dispatch_of(cmd, s) ==
    IF startswith(cmd, "cd ")
    THEN startswith(s, "if [ -d '") /\ contains(s, "cd '" \o SubSeq(cmd, 4, Len(cmd)) \o "' && pwd")
    ELSE IF contains(cmd, "=")
    THEN contains(s, "' && " \o cmd \o " && echo 'Set ")
    ELSE startswith(s, "cd '") /\ endswith(s, " " \o cmd)

handled_by(i, kind) == classify(commands[i]) = kind

C2_NotFoundLeavesSession ==
    [][ ( /\ in_loop
          /\ startswith(next_command(commands, results), "cd ")
          /\ invocation'.fetch = "ok"
          /\ strip(invocation'.stdout) = "Directory not found" )
        => ( /\ current_directory' = current_directory
             /\ environment_vars' = environment_vars
             /\ command_history' = command_history
             /\ results' = Append(results, "Directory not found")
             /\ pc' = "running" ) ]_vars

\* the second cd of a call is not found after the first one changed the directory
C2_Witness ==
    /\ invocation.kind = "DirectoryChange"
    /\ invocation.command = "cd /t"
    /\ strip(invocation.stdout) = "Directory not found"
    /\ Len(results) = 2
    /\ startswith(results[1], CHANGED_TO)
    /\ results[2] = "Directory not found"
    /\ current_directory = "/t"
    /\ command_history = <<"cd d">>

\* C3: execute never propagates a failure of the remote submit or fetch to its
\* caller: every atomic command yields a result string.
C3_NeverPropagates == pc # "raised"

\* C4: current_directory is never empty, and a cd whose invocation ended Failed,
\* Cancelled or TimedOut, or was still pending when the polling gave up, does not
\* change it.
C4_DirectoryConfirmed ==
    /\ current_directory # ""
    /\ ( /\ invocation.kind = "DirectoryChange"
         /\ invocation.fetch = "ok"
         /\ (poll.status \in {"Failed", "Cancelled", "TimedOut"} \/ ~poll.result) )
       => ~startswith(Last(results), CHANGED_TO)

\* C5: the atomic command `cd` is handled as a directory change, and sets
\* current_directory to the directory its probe printed.
C5_BareCdGoesHome ==
    (invocation.command = "cd")
    => /\ invocation.kind = "DirectoryChange"
       /\ Last(sent) = "cd && pwd"
       /\ invocation.fetch = "ok" => current_directory = strip(invocation.stdout)

\* C6: once the handler of NAME=VALUE has returned, get_state reports NAME mapped
\* to VALUE, also when the submit failed, the polling ran out or the invocation
\* ended in a status other than Success.
C6_AssignmentIsLocal ==
    (invocation.kind = "VariableAssignment")
    => LET eq == find(invocation.command, "=")
           name == SubSeq(invocation.command, 1, eq - 1)
           value == SubSeq(invocation.command, eq + 1, Len(invocation.command))
           reported == get_state.environment_variables
       IN  /\ \E i \in 1..Len(reported) : reported[i] = <<name, value>>
           /\ \A i \in 1..Len(reported) : reported[i][1] = name => reported[i][2] = value

\* the submit of A=1 failed and the mapping holds A
C6_Witness ==
    /\ invocation.kind = "VariableAssignment"
    /\ invocation.command = "A=1"
    /\ ~invocation.submitOK
    /\ startswith(Last(results), "Error setting environment variable: ")
    /\ get_state.environment_variables = <<<<"A", "1">>>>

\* C7: the command string of every general command is cd '<current_directory>' &&,
\* then one NAME='VALUE' entry for every tracked variable (nothing when there is
\* none), then the command.
C7_VariablesReapplied ==
    (invocation.kind = "GeneralExecution")
    => LET s == Last(sent)
           head == "cd '" \o current_directory \o "' && "
           middle == SubSeq(s, Len(head) + 1, Len(s) - Len(invocation.command))
           entries == split(SubSeq(middle, 1, Len(middle) - 1), " ")
       IN  /\ startswith(s, head)
           /\ endswith(s, invocation.command)
           /\ Len(s) >= Len(head) + Len(invocation.command)
           /\ environment_vars = <<>> => middle = ""
           /\ environment_vars # <<>> =>
                 /\ endswith(middle, " ")
                 /\ Len(entries) = Len(environment_vars)
                 /\ \A i \in 1..Len(environment_vars) :
                       entries[i] = environment_vars[i][1] \o "='"
                                    \o environment_vars[i][2] \o "'"

\* the second general command after the assignments carries both variables again
C7_Witness ==
    /\ commands = <<"A=1", "pwd", "pwd">>
    /\ Len(results) = 3
    /\ invocation.kind = "GeneralExecution"
    /\ environment_vars = <<<<"B", "2">>, <<"A", "1">>>>
    /\ endswith(sent[2], "&& B='2' A='1' pwd")
    /\ endswith(sent[3], "&& B='2' A='1' pwd")

\* C8: the history get_state reports has min(10, n) entries, the last ones of the
\* n recorded, in recording order.
C8_HistoryView ==
    LET view == get_state.command_history
        n == Len(command_history)
        m == IF n < 10 THEN n ELSE 10
    IN  /\ Len(view) = m
        /\ Len(view) <= 10
        /\ \A i \in 1..m : view[i] = command_history[n - m + i]

\* eleven commands are recorded and the oldest differs from the second
C8_Witness ==
    /\ Len(command_history) = 11
    /\ command_history[1] = "cd /t"
    /\ command_history[2] = "pwd"
    /\ Len(get_state.command_history) = 10

\* C9: once an atomic command of a call has yielded "Directory not found" or an
\* error string, the call still submits every remaining atomic command: when the
\* call has ended, each of its atomic commands has been submitted.
C9_NoShortCircuit ==
    ( /\ pc \in {"returned", "raised"}
      /\ \E i \in 1..Len(results) : is_failure_result(results[i]) )
    => Len(sent) = Len(commands)

\* C10: the delay after query k (from 0) that answered a non-terminal status is
\* min(3 * 2^k, 15): at most 15, and not decreasing with k; the answers Pending,
\* Pending, Success make the poller return true after 3 queries and 2 delays.
C10_Backoff ==
    /\ Len(poll.delays) <= Len(poll.answers)
    /\ \A i \in 1..Len(poll.delays) :
          (poll.answers[i] = "Pending")
          => /\ poll.delays[i] = Min(3 * (2 ^ (i - 1)), 15)
             /\ poll.delays[i] <= 15
             /\ \A j \in 1..(i - 1) :
                   (poll.answers[j] = "Pending") => poll.delays[j] <= poll.delays[i]
    /\ (poll.answers = <<"Pending", "Pending", "Success">>)
          => /\ poll.done
             /\ poll.result
             /\ poll.delays = <<3, 6>>

\* the poller has returned true on Pending, Pending, Success
C10_Witness ==
    /\ pc = "polling"
    /\ poll.answers = <<"Pending", "Pending", "Success">>
    /\ poll.done
    /\ poll.result
    /\ Len(poll.delays) = 2

-----------------------------------------------------------------------------
(* Properties of the initialization, the routing, the poller and the history *)

is_handler_kind(kind) ==
    kind \in {"DirectoryChange", "VariableAssignment", "GeneralExecution"}

\* this step is one iteration of the loop of execute_command
handler_step == in_loop /\ sent' # sent

\* C11: the constructor never raises: when the submit or the fetch of the home
\* probe fails, or its output is empty once trimmed, current_directory is
\* "/home/ec2-user"; otherwise it is the trimmed output.
C11_InitializationFallsBack ==
    (invocation.kind = "init")
    => /\ pc # "raised"
       /\ current_directory =
             IF /\ invocation.submitOK
                /\ invocation.fetch = "ok"
                /\ strip(invocation.stdout) # ""
             THEN strip(invocation.stdout)
             ELSE "/home/ec2-user"

\* the probe printed only white space and the default is kept
C11_Witness ==
    /\ invocation.kind = "init"
    /\ invocation.fetch = "ok"
    /\ invocation.stdout = " \n"
    /\ current_directory = "/home/ec2-user"

\* C12: a general command leaves current_directory and environment_vars as they
\* were, whatever its text and its output; it is appended to the history when
\* its submit and its fetch both succeeded, and otherwise the history is unchanged
\* and its result is an error string.
C12_GeneralLeavesSession ==
    [][ (in_loop /\ invocation'.kind = "GeneralExecution")
        => LET completed == invocation'.submitOK /\ invocation'.fetch = "ok"
           IN  /\ current_directory' = current_directory
               /\ environment_vars' = environment_vars
               /\ completed => command_history' = Append(command_history, invocation'.command)
               /\ ~completed =>
                     /\ command_history' = command_history
                     /\ startswith(Last(results'), "Error executing command: ") ]_vars

\* a command with a cd inside it printed /t and the directory is still another one
C12_Witness ==
    /\ invocation.kind = "GeneralExecution"
    /\ invocation.command = "ls; cd /t"
    /\ invocation.stdout = "/t\n"
    /\ current_directory # "/t"
    /\ command_history = <<"ls; cd /t">>

\* C13: an atomic command goes to one handler, the first that matches: the cd
\* handler if it starts with `cd `, else the assignment handler if it holds `=` and
\* does not start with `export `, `echo ` or `printf `, else the general handler;
\* `cd a=b` is a directory change, `export A=b` a general command that leaves
\* environment_vars as it was.
C13_FirstMatchRouting ==
    [][ handler_step
        => LET cmd == commands[Len(results) + 1]
               expected ==
                   IF startswith(cmd, "cd ") THEN "DirectoryChange"
                   ELSE IF /\ \E i \in 1..Len(cmd) : SubSeq(cmd, i, i) = "="
                           /\ ~startswith(cmd, "export ")
                           /\ ~startswith(cmd, "echo ")
                           /\ ~startswith(cmd, "printf ")
                        THEN "VariableAssignment"
                   ELSE "GeneralExecution"
           IN  /\ invocation'.command = cmd
               /\ invocation'.kind = expected
               /\ Len(sent') = Len(sent) + 1
               /\ Len(results') <= Len(results) + 1
               /\ (cmd = "cd a=b") =>
                     /\ invocation'.kind = "DirectoryChange"
                     /\ environment_vars' = environment_vars
               /\ (cmd = "export A=b") =>
                     /\ invocation'.kind = "GeneralExecution"
                     /\ environment_vars' = environment_vars ]_vars

\* `cd a=b` changed the directory and `export A=b` ran as a general command
C13_Witness ==
    /\ commands = <<"cd a=b", "export A=b">>
    /\ Len(results) = 2
    /\ startswith(results[1], CHANGED_TO)
    /\ invocation.kind = "GeneralExecution"
    /\ invocation.command = "export A=b"
    /\ environment_vars = <<>>

\* C14: the assignment `NAME=` with no value yields an error result for that
\* command: no exception reaches the caller, and it is not confirmed or recorded
\* as an assignment.
C14_MalformedAssignmentIsError ==
    (invocation.command = "A=")
    => /\ pc # "raised"
       /\ startswith(Last(results), "Error setting environment variable: ")
       /\ ~startswith(Last(results), "Set environment variable ")
       /\ \A i \in 1..Len(command_history) : command_history[i] # "A="

\* the poller as it has returned: true at the first terminal answer, with no query
\* or delay after it; false when none of its 10 queries answered a terminal status
PollerStopsAtTerminal(p) ==
    LET terminal(i) == p.answers[i] \in {"Success", "Failed", "Cancelled", "TimedOut"}
        n == Len(p.answers)
    IN  /\ p.result = (\E i \in 1..n : terminal(i))
        /\ p.result =>
              /\ terminal(n)
              /\ \A i \in 1..(n - 1) : ~terminal(i)
              /\ Len(p.delays) = n - 1
        /\ ~p.result =>
              /\ n = 10
              /\ Len(p.delays) = 10

\* C15: the poller returns true at the first query that answers Success, Failed,
\* Cancelled or TimedOut and makes no query or delay after it; it returns false
\* exactly when none of its 10 queries answered one of them, and the handler that
\* called it then still goes on to its fetch, or to its result.
C15_PollerResult ==
    (is_handler_kind(invocation.kind) /\ invocation.submitOK)
    => /\ poll.done
       /\ PollerStopsAtTerminal(poll)
       /\ ~poll.result =>
             IF invocation.kind = "VariableAssignment"
             THEN Last(results) = "Set environment variable " \o invocation.command
             ELSE invocation.fetch \in {"ok", "failed"}

\* the polling of a cd ran out of attempts and the handler fetched the output
C15_Witness ==
    /\ invocation.kind = "DirectoryChange"
    /\ invocation.submitOK
    /\ ~poll.result
    /\ Len(poll.answers) = 10
    /\ invocation.fetch = "ok"
    /\ Len(results) > 0

\* C16: a status query that fails is followed by a delay of 3 seconds, whatever
\* the attempt, and does not end the polling: the loop goes on while attempts are
\* left, and a later terminal answer still makes the poller return true.
C16_QueryFailureSwallowed ==
    LET n == Len(poll.answers)
    IN  /\ \A i \in 1..n :
              (poll.answers[i] = "Error")
              => /\ Len(poll.delays) >= i
                 /\ poll.delays[i] = 3
                 /\ (poll.done /\ i = n) => n = 10
                 /\ poll.done => ~poll.result \/ i < n
        /\ (n > 0 /\ poll.answers[n] \in {"Success", "Failed", "Cancelled", "TimedOut"})
              => poll.done /\ poll.result

\* a query failed at the third attempt, where the backoff would be 12 seconds,
\* and the next one answered Success
C16_Witness ==
    /\ pc = "polling"
    /\ poll.answers = <<"Pending", "Pending", "Error", "Success">>
    /\ poll.delays = <<3, 6, 3>>
    /\ poll.done
    /\ poll.result

\* C17: a call makes one submission for every non-empty trimmed segment of its
\* input, in order, and returns the results of the segments joined by newlines;
\* with no non-empty segment it submits nothing, leaves the session as it was and
\* returns the empty string.
C17_OneSubmissionPerSegment ==
    /\ \A i \in 1..Len(commands) : commands[i] # "" /\ strip(commands[i]) = commands[i]
    /\ (pc \in {"returned", "raised"})
          => /\ Len(sent) = Len(commands)
             /\ Len(results) = Len(commands)
             /\ pc = "returned"
             /\ returned = join("\n", results)
    /\ (pc = "returned" /\ commands = <<>>) => (sent = <<>> /\ returned = "")

\* C18: an assignment whose submit did not fail returns the string built locally,
\* "Set environment variable NAME=VALUE", and is appended to the history, whatever
\* the status of its invocation, and its output is never fetched; one whose submit
\* failed returns an error string and is not appended.
C18_AssignmentConfirmedLocally ==
    [][ (in_loop /\ invocation'.kind = "VariableAssignment")
        => LET cmd == commands[Len(results) + 1]
           IN  /\ invocation'.fetch = "none"
               /\ invocation'.submitOK =>
                     /\ results' = Append(results, "Set environment variable " \o cmd)
                     /\ command_history' = Append(command_history, cmd)
               /\ ~invocation'.submitOK =>
                     /\ Len(results') = Len(results) + 1
                     /\ startswith(Last(results'), "Error setting environment variable: ")
                     /\ command_history' = command_history ]_vars

\* the invocation of A=1 ended Failed and the assignment is confirmed and recorded
C18_Witness ==
    /\ invocation.kind = "VariableAssignment"
    /\ invocation.command = "A=1"
    /\ poll.status = "Failed"
    /\ Last(results) = "Set environment variable A=1"
    /\ Last(command_history) = "A=1"

\* C19: the poller makes at most 10 status queries and then returns: every query
\* that fails or answers a non-terminal status consumes one attempt, a step is
\* possible until it has returned, and 10 failed queries make it return false.
C19_PollerBounded ==
    LET n == Len(poll.answers)
        open == {i \in 1..n : poll.answers[i] \notin {"Success", "Failed", "Cancelled", "TimedOut"}}
    IN  /\ n <= 10
        /\ poll.attempt = Cardinality(open)
        /\ poll.attempt <= 10
        /\ (pc = "polling" /\ ~poll.done) => ENABLED (WaitQuery \/ wait_exhausted)
        /\ (n = 10 /\ \A i \in 1..n : poll.answers[i] = "Error")
              => /\ ~poll.result
                 /\ poll.done \/ ENABLED wait_exhausted

\* ten queries failed and the poller returned false
C19_Witness ==
    /\ pc = "polling"
    /\ Len(poll.answers) = 10
    /\ \A i \in 1..10 : poll.answers[i] = "Error"
    /\ poll.done
    /\ ~poll.result

\* C20: the history only grows at its end, by the atomic command of a handler that
\* completed: a cd whose trimmed output is not the sentinel, an assignment whose
\* submit succeeded, a general command whose submit and fetch succeeded; a command
\* whose handler returned the sentinel or an error string, or raised, is not
\* recorded, and no other step changes the history.
C20_HistoryOfCompletedCommands ==
    [][ IF handler_step
        THEN LET cmd == commands[Len(results) + 1]
                 kind == invocation'.kind
                 fetched == invocation'.submitOK /\ invocation'.fetch = "ok"
                 completed ==
                     IF kind = "DirectoryChange"
                     THEN fetched /\ strip(invocation'.stdout) # "Directory not found"
                     ELSE IF kind = "VariableAssignment" THEN invocation'.submitOK
                     ELSE fetched
                 failed ==
                     \/ results' = results
                     \/ kind = "DirectoryChange" /\ Last(results') = "Directory not found"
                     \/ startswith(Last(results'), "Error setting environment variable: ")
                     \/ startswith(Last(results'), "Error executing command: ")
             IN  /\ command_history' = IF completed THEN Append(command_history, cmd)
                                       ELSE command_history
                 /\ completed = ~failed
        ELSE command_history' = command_history ]_vars

\* of three atomic commands the first was not found and the two others are recorded
C20_Witness ==
    /\ commands = <<"cd d", "cd /t", "pwd">>
    /\ Len(results) = 3
    /\ results[1] = "Directory not found"
    /\ command_history = <<"cd /t", "pwd">>

====
